---- MODULE Spec2Model ----
(***************************************************************************)
(* A model of the in-memory graph database of graphdb/graphdb.py (Node,    *)
(* GraphDB, Queue) and of the callers in covid_contact_tracing.py.         *)
(*                                                                         *)
(* Strings are sequences of tokens: a token is a word (a run of characters *)
(* without separator) or one of the two separator characters ":" and "="   *)
(* that str.split is called with.  Node objects are handles 1, 2, ...      *)
(* given out in creation order; object identity is handle equality (Node   *)
(* defines neither __eq__ nor __hash__).                                    *)
(***************************************************************************)
EXTENDS Integers, Sequences, FiniteSets, TLC

VARIABLES
    nodes,          \* GraphDB.nodes: the set of Node objects
    label,          \* Node.label of every stored node
    properties,     \* Node.properties: insertion-ordered dict, a sequence of <<name, value>>
    connections,    \* Node.connections of every stored node
    indexeStore,    \* GraphDB.indexeStore: label -> key -> value -> set of nodes
    allIndexSets,   \* GraphDB.allIndexSets: the references to the value sets (it is only
                    \* ever iterated in full, so the list is kept as the set of its entries)
    firstOf,        \* which member list(indexeStore[l]["id"][v])[0] yields, per <<l, v>>
    last,           \* the last call on the store: operation and outcome (ok or the exception
                    \* raised); for a successful connect also the two nodes it resolved and
                    \* whether it changed a connection set
    pc,             \* position of the running bfs call: "idle", "loop" or "done"
    startNode,      \* bfs arguments
    query,
    maxDepth,
    visited,        \* bfs locals
    level,
    result,
    q,
    fifo            \* for the Queue run on its own: the items enqueued and not yet
                    \* dequeued, oldest first

store == <<nodes, label, properties, connections, indexeStore, allIndexSets, firstOf>>
bfsVars == <<pc, startNode, query, maxDepth, visited, level, result, q>>
vars == <<store, last, bfsVars, fifo>>

(***************************************************************************)
(* Bounds and input alphabets.                                             *)
(***************************************************************************)
MaxNodes == 2       \* addNode succeeds at most this many times
BfsNodes == 3       \* number of persons in the graphs bfs is run on
MaxDepthArg == 3    \* largest maxDepth argument passed to bfs
ZoneNodes == 3      \* persons the contact tracing program loads at most
MaxCells == 4       \* ListNode cells one Queue creates at most

COLON == ":"
EQ == "="
None == <<"<None>">>           \* Python's None, distinct from every string
NoNode == 0                    \* no Node object
ID == <<"id">>
EmptyStr == <<>>

Person == <<"Person">>
Dog == <<"Dog">>
PersonEljo == <<"Person", COLON, "eljo">>    \* the label 'Person:eljo'
Eljo == <<"eljo">>
Norah == <<"norah">>
Infected == <<"infected">>
Yes == <<"yes">>
No == <<"no">>

\* (label, id) arguments of addNode
NodeInputs == {<<Person, Eljo>>, <<Dog, Eljo>>, <<PersonEljo, EmptyStr>>}

Qual(l, i) == l \o <<COLON>> \o i

\* qualifier arguments: id qualifiers of nodes that can exist, one of a node that
\* is never added, and a bare label (which queryById rejects)
Qualifiers ==
    {Qual(Person, Eljo), Qual(Person, Norah), Qual(Dog, Eljo), Person}

PropertyNames == {Infected, ID}
PropertyValues == {Yes, No}

(***************************************************************************)
(* Helpers for Python dicts modelled as functions.                         *)
(***************************************************************************)
Put(f, k, v) == [x \in (DOMAIN f) \cup {k} |-> IF x = k THEN v ELSE f[x]]

EmptyDict == [x \in {} |-> {}]

\* dict.update({name: value}) on an insertion-ordered dict
DictUpdate(props, name, value) ==
    IF \E i \in 1..Len(props) : props[i][1] = name
    THEN [i \in 1..Len(props) |-> IF props[i][1] = name THEN <<name, value>> ELSE props[i]]
    ELSE Append(props, <<name, value>>)

HasKey(props, name) == \E i \in 1..Len(props) : props[i][1] = name

Lookup(props, name) == props[CHOOSE i \in 1..Len(props) : props[i][1] = name][2]

(***************************************************************************)
(* The query parser (static methods of GraphDB).                           *)
(***************************************************************************)
RECURSIVE Split(_, _)
\* str.split(sep): the pieces between the occurrences of sep
Split(s, sep) ==
    IF \A i \in 1..Len(s) : s[i] # sep
    THEN <<s>>
    ELSE LET i == CHOOSE j \in 1..Len(s) : s[j] = sep /\ \A k \in 1..(j - 1) : s[k] # sep
         IN <<SubSeq(s, 1, i - 1)>> \o Split(SubSeq(s, i + 1, Len(s)), sep)

\* GraphDB.parseQueryClause: 'value' or 'key=value'
parseQueryClause(clause) ==
    LET queryParts == Split(clause, EQ) IN
    IF Len(queryParts) = 1 THEN [err |-> FALSE, key |-> ID, value |-> queryParts[1]]
    ELSE IF Len(queryParts) = 2 THEN [err |-> FALSE, key |-> queryParts[1], value |-> queryParts[2]]
    ELSE [err |-> TRUE, key |-> None, value |-> None]

\* GraphDB.parseQueryQualifier: 'Label', 'Label:id' or 'Label:key=value'
parseQueryQualifier(queryQualifier) ==
    LET queryQualifierParts == Split(queryQualifier, COLON) IN
    IF Len(queryQualifierParts) = 2
    THEN LET c == parseQueryClause(queryQualifierParts[2])
         IN [err |-> c.err, label |-> queryQualifierParts[1], key |-> c.key, value |-> c.value]
    ELSE IF Len(queryQualifierParts) = 1
    THEN [err |-> FALSE, label |-> queryQualifierParts[1], key |-> None, value |-> None]
    ELSE [err |-> TRUE, label |-> None, key |-> None, value |-> None]

\* doesNodeMatchQuery with a node that lacks the property counted as a match
doesNodeMatchQuery_AbsentMatches(props, clause) ==
    LET c == parseQueryClause(clause) IN
    [err |-> c.err,
     match |-> ~c.err /\ (HasKey(props, c.key) => Lookup(props, c.key) = c.value)]

\* GraphDB.doesNodeMatchQuery on a node's property dict; err when the clause does not parse
doesNodeMatchQuery(props, clause) ==
    LET c == parseQueryClause(clause) IN
    [err |-> c.err,
     match |-> ~c.err /\ HasKey(props, c.key) /\ Lookup(props, c.key) = c.value]

(***************************************************************************)
(* The index store.                                                        *)
(***************************************************************************)
\* index that lists the label's own set in allIndexSets when it creates it, so that
\* unIndex empties it as well
index_LabelSetListed(ix, lbl, keyName, keyValue, node) ==
    LET s1 == IF lbl \in DOMAIN ix.store THEN ix.store
              ELSE Put(ix.store, lbl, Put(EmptyDict, None, Put(EmptyDict, None, {})))
        s2 == IF keyName \in DOMAIN s1[lbl] THEN s1
              ELSE Put(s1, lbl, Put(s1[lbl], keyName, EmptyDict))
        isNew == keyValue \notin DOMAIN s2[lbl][keyName]
        s3 == IF isNew THEN Put(s2, lbl, Put(s2[lbl], keyName, Put(s2[lbl][keyName], keyValue, {})))
              ELSE s2
        sets3 == (IF isNew THEN ix.sets \cup {<<lbl, keyName, keyValue>>} ELSE ix.sets)
                    \cup {<<lbl, None, None>>}
        s4 == Put(s3, lbl, Put(s3[lbl], keyName,
                   Put(s3[lbl][keyName], keyValue, s3[lbl][keyName][keyValue] \cup {node})))
        s5 == Put(s4, lbl, Put(s4[lbl], None,
                   Put(s4[lbl][None], None, s4[lbl][None][None] \cup {node})))
    IN [store |-> s5, sets |-> sets3]

\* GraphDB.index on the pair ix = [store, sets] of indexeStore and allIndexSets
index(ix, lbl, keyName, keyValue, node) ==
    LET s1 == IF lbl \in DOMAIN ix.store THEN ix.store
              ELSE Put(ix.store, lbl, Put(EmptyDict, None, Put(EmptyDict, None, {})))
        s2 == IF keyName \in DOMAIN s1[lbl] THEN s1
              ELSE Put(s1, lbl, Put(s1[lbl], keyName, EmptyDict))
        isNew == keyValue \notin DOMAIN s2[lbl][keyName]
        s3 == IF isNew THEN Put(s2, lbl, Put(s2[lbl], keyName, Put(s2[lbl][keyName], keyValue, {})))
              ELSE s2
        sets3 == IF isNew THEN ix.sets \cup {<<lbl, keyName, keyValue>>} ELSE ix.sets
        s4 == Put(s3, lbl, Put(s3[lbl], keyName,
                   Put(s3[lbl][keyName], keyValue, s3[lbl][keyName][keyValue] \cup {node})))
        s5 == Put(s4, lbl, Put(s4[lbl], None,
                   Put(s4[lbl][None], None, s4[lbl][None][None] \cup {node})))
    IN [store |-> s5, sets |-> sets3]

\* unIndex that empties every set the node is in: indexSet.clear() for remove(node)
unIndex_Clear(ix, node) ==
    LET listed(l, k, v) == <<l, k, v>> \in ix.sets
    IN [store |-> [l \in DOMAIN ix.store |-> [k \in DOMAIN ix.store[l] |->
                     [v \in DOMAIN ix.store[l][k] |->
                        IF listed(l, k, v) /\ node \in ix.store[l][k][v] THEN {}
                        ELSE ix.store[l][k][v]]]],
        sets |-> ix.sets]

\* unIndex that removes nothing
unIndex_Keep(ix, node) == ix

\* GraphDB.unIndex: remove the node from every set allIndexSets refers to
unIndex(ix, node) ==
    LET listed(l, k, v) == <<l, k, v>> \in ix.sets
    IN [store |-> [l \in DOMAIN ix.store |-> [k \in DOMAIN ix.store[l] |->
                     [v \in DOMAIN ix.store[l][k] |->
                        IF listed(l, k, v) THEN ix.store[l][k][v] \ {node}
                        ELSE ix.store[l][k][v]]]],
        sets |-> ix.sets]

RECURSIVE addIndexFrom(_, _, _, _, _)
\* GraphDB.addIndex: index the node under each of its properties, in dict order
addIndexFrom(ix, node, lbl, props, i) ==
    IF i > Len(props) THEN ix
    ELSE addIndexFrom(index(ix, lbl, props[i][1], props[i][2], node), node, lbl, props, i + 1)

addIndex(ix, node, lbl, props) == addIndexFrom(ix, node, lbl, props, 1)

\* GraphDB.reIndex
reIndex(ix, node, lbl, props) == addIndex(unIndex(ix, node), node, lbl, props)

\* dict.get chain of GraphDB.query / the subscript chain of GraphDB.queryById
IndexGet(ixStore, lbl, key, value) ==
    IF lbl \in DOMAIN ixStore /\ key \in DOMAIN ixStore[lbl] /\ value \in DOMAIN ixStore[lbl][key]
    THEN ixStore[lbl][key][value]
    ELSE {}

(***************************************************************************)
(* Queue: a linked list of ListNode cells.  cells[i] is the i-th ListNode  *)
(* ever created; 0 is the None reference.                                  *)
(***************************************************************************)
EmptyQueue == [front |-> 0, back |-> 0, queueSize |-> 0, cells |-> <<>>]

\* Queue.isEmpty
isEmpty(Q) == Q.front = 0

\* enqueue that links the new cell but leaves back where it was
enqueue_BackStays(Q, item) ==
    LET node == Len(Q.cells) + 1
        cells == Append(Q.cells, [data |-> item, next |-> 0])
    IN IF isEmpty(Q)
       THEN [front |-> node, back |-> node, queueSize |-> Q.queueSize + 1, cells |-> cells]
       ELSE [front |-> Q.front, back |-> Q.back, queueSize |-> Q.queueSize + 1,
             cells |-> [cells EXCEPT ![Q.back].next = node]]

\* Queue.enqueue
enqueue(Q, item) ==
    LET node == Len(Q.cells) + 1
        cells == Append(Q.cells, [data |-> item, next |-> 0])
    IN IF isEmpty(Q)
       THEN [front |-> node, back |-> node, queueSize |-> Q.queueSize + 1, cells |-> cells]
       ELSE [front |-> Q.front, back |-> node, queueSize |-> Q.queueSize + 1,
             cells |-> [cells EXCEPT ![Q.back].next = node]]

\* Queue.dequeue on a non-empty queue: the queue that is left
dequeue(Q) == [Q EXCEPT !.front = Q.cells[Q.front].next, !.queueSize = Q.queueSize - 1]

\* Queue.peek: the front item; None (here NoNode) on an empty queue
peek(Q) == IF ~isEmpty(Q) THEN Q.cells[Q.front].data ELSE NoNode

RECURSIVE enqueueAll(_, _, _)
enqueueAll(Q, order, i) ==
    IF i > Len(order) THEN Q ELSE enqueueAll(enqueue(Q, order[i]), order, i + 1)

\* the orders in which iterating over a set can yield its members
Orders(S) == {f \in [1..Cardinality(S) -> S] : \A i, j \in 1..Cardinality(S) : f[i] = f[j] => i = j}

(***************************************************************************)
(* Queries on the current store.                                           *)
(***************************************************************************)
Result(status, node) == [status |-> status, node |-> node]

\* queryById that looks the id up under the label Person whatever the qualifier's label
queryById_AnyLabel(queryQualifier) ==
    LET p == parseQueryQualifier(queryQualifier) IN
    IF p.err THEN Result("QuerySyntaxError", NoNode)
    ELSE IF p.key # ID THEN Result("QuerySyntaxError", NoNode)
    ELSE IF IndexGet(indexeStore, Person, p.key, p.value) = {} THEN Result("NotFound", NoNode)
    ELSE Result("ok", firstOf[<<Person, p.value>>])

\* queryById that hands out a Node it does not store when none is found
queryById_OrNew(queryQualifier) ==
    LET p == parseQueryQualifier(queryQualifier) IN
    IF p.err THEN Result("QuerySyntaxError", NoNode)
    ELSE IF p.key # ID THEN Result("QuerySyntaxError", NoNode)
    ELSE IF IndexGet(indexeStore, p.label, p.key, p.value) = {}
    THEN Result("ok", Cardinality(nodes) + 1)
    ELSE Result("ok", firstOf[<<p.label, p.value>>])

\* GraphDB.queryById: the node, or the exception raised
queryById(queryQualifier) ==
    LET p == parseQueryQualifier(queryQualifier) IN
    IF p.err THEN Result("QuerySyntaxError", NoNode)
    ELSE IF p.key # ID THEN Result("QuerySyntaxError", NoNode)
    ELSE IF IndexGet(indexeStore, p.label, p.key, p.value) = {} THEN Result("NotFound", NoNode)
    ELSE Result("ok", firstOf[<<p.label, p.value>>])

\* GraphDB.query with a qualifier: the set of matching nodes, or the parser's exception
queryExact(queryQualifier) ==
    LET p == parseQueryQualifier(queryQualifier) IN
    IF p.err THEN [status |-> "QuerySyntaxError", nodes |-> {}]
    ELSE [status |-> "ok", nodes |-> IndexGet(indexeStore, p.label, p.key, p.value)]

\* GraphDB.query(): no qualifier
queryAll == nodes

\* format(label, spec) of the f-string f"{node.getLabel():{node.getId()}}": the empty
\* spec yields the label; a word of the alphabet used here is no format specification
\* and raises ValueError
Format(lbl, spec) ==
    IF spec = EmptyStr THEN [err |-> FALSE, str |-> lbl] ELSE [err |-> TRUE, str |-> None]

\* GraphDB.throwIfNodeAlreadyExists for a Node just constructed: TRUE when it raises
throwIfNodeAlreadyExists(lbl, id) ==
    LET f == Format(lbl, id) IN
    IF f.err THEN FALSE                       \* except: pass
    ELSE queryById(f.str).status = "ok"       \* a failing queryById is swallowed as well

\* Node.getId
getId(node) == properties[node][1][2]

\* Node.getProperty
getProperty(node, propertyName) ==
    IF HasKey(properties[node], propertyName) THEN Lookup(properties[node], propertyName)
    ELSE None

(***************************************************************************)
(* The mutating operations of GraphDB.                                     *)
(***************************************************************************)
Outcome(op, status, touched, changed) ==
    [op |-> op, status |-> status, nodes |-> touched, changed |-> changed]

\* addConnection whose second add names the wrong object: node.connections.add(node)
addConnection_Typo(conns, self, node) ==
    IF node = self THEN [err |-> TRUE, conns |-> conns]
    ELSE [err |-> FALSE, conns |-> [conns EXCEPT ![self] = @ \cup {node}, ![node] = @ \cup {node}]]

\* addConnection without the back reference
addConnection_OneWay(conns, self, node) ==
    IF node = self THEN [err |-> TRUE, conns |-> conns]
    ELSE [err |-> FALSE, conns |-> [conns EXCEPT ![self] = @ \cup {node}]]

\* addConnection without the check for node == self
addConnection_NoSelfCheck(conns, self, node) ==
    [err |-> FALSE, conns |-> [conns EXCEPT ![self] = @ \cup {node}, ![node] = @ \cup {self}]]

\* addConnection that adds to self.connections before it compares node with self
addConnection_AddFirst(conns, self, node) ==
    IF node = self THEN [err |-> TRUE, conns |-> [conns EXCEPT ![self] = @ \cup {node}]]
    ELSE [err |-> FALSE, conns |-> [conns EXCEPT ![self] = @ \cup {node}, ![node] = @ \cup {self}]]

\* Node.addConnection, on the connection sets of all nodes (every argument is a Node)
addConnection(conns, self, node) ==
    IF node = self THEN [err |-> TRUE, conns |-> conns]
    ELSE [err |-> FALSE, conns |-> [conns EXCEPT ![self] = @ \cup {node}, ![node] = @ \cup {self}]]

\* the store after reIndex(node): the index, and the iteration order of the id set
ReIndexed(node, lbl, props) ==
    LET ix == reIndex([store |-> indexeStore, sets |-> allIndexSets], node, lbl, props)
        id == props[1][2]
    IN /\ indexeStore' = ix.store
       /\ allIndexSets' = ix.sets
       /\ \E f \in ix.store[lbl][ID][id] : firstOf' = Put(firstOf, <<lbl, id>>, f)

\* a call of GraphDB.queryById by the client: nothing is written
QueryById(queryQualifier) ==
    /\ last' = Outcome("queryById", queryById(queryQualifier).status, {}, FALSE)
    /\ UNCHANGED <<store, bfsVars, fifo>>

\* addNode without self.nodes.add(node)
AddNode_NoNodesAdd(lbl, id) ==
    LET node == Cardinality(nodes) + 1 IN
    /\ UNCHANGED <<bfsVars, fifo>>
    /\ IF throwIfNodeAlreadyExists(lbl, id)
       THEN /\ last' = Outcome("addNode", "AttributeError", {}, FALSE)
            /\ UNCHANGED store
       ELSE /\ nodes' = nodes
            /\ label' = Put(label, node, lbl)
            /\ properties' = Put(properties, node, <<(<<ID, id>>)>>)
            /\ connections' = Put(connections, node, {})
            /\ ReIndexed(node, lbl, <<(<<ID, id>>)>>)
            /\ last' = Outcome("addNode", "ok", {}, TRUE)

\* GraphDB.addNode
AddNode(lbl, id) ==
    LET node == Cardinality(nodes) + 1 IN
    /\ UNCHANGED <<bfsVars, fifo>>
    /\ IF throwIfNodeAlreadyExists(lbl, id)
       THEN /\ last' = Outcome("addNode", "AttributeError", {}, FALSE)
            /\ UNCHANGED store
       ELSE /\ nodes' = nodes \cup {node}
            /\ label' = Put(label, node, lbl)
            /\ properties' = Put(properties, node, <<(<<ID, id>>)>>)
            /\ connections' = Put(connections, node, {})
            /\ ReIndexed(node, lbl, <<(<<ID, id>>)>>)
            /\ last' = Outcome("addNode", "ok", {}, TRUE)

\* GraphDB.connect
Connect(nodeQualifier1, nodeQualifier2) ==
    LET r1 == queryById(nodeQualifier1)
        r2 == queryById(nodeQualifier2)
    IN /\ UNCHANGED <<bfsVars, fifo>>
       /\ UNCHANGED <<nodes, label, properties, indexeStore, allIndexSets, firstOf>>
       /\ IF r1.status # "ok"
          THEN last' = Outcome("connect", r1.status, {}, FALSE) /\ UNCHANGED connections
          ELSE IF r2.status # "ok"
          THEN last' = Outcome("connect", r2.status, {}, FALSE) /\ UNCHANGED connections
          ELSE LET c == addConnection(connections, r1.node, r2.node) IN
               IF c.err
               THEN /\ last' = Outcome("connect", "InvalidOperation", {}, FALSE)
                    /\ connections' = c.conns
               ELSE /\ connections' = c.conns
                    /\ last' = Outcome("connect", "ok", {r1.node, r2.node},
                                       c.conns # connections)

\* addOrUpdateNodeProperty over a Node.addOrUpdateProperty without the test for 'id'
AddOrUpdateNodeProperty_NoIdTest(nodeQualifier, propertyName, propertyValue) ==
    LET r == queryById(nodeQualifier) IN
    /\ UNCHANGED <<bfsVars, fifo>>
    /\ UNCHANGED <<nodes, label, connections>>
    /\ IF r.status # "ok"
       THEN /\ last' = Outcome("setProperty", r.status, {}, FALSE)
            /\ UNCHANGED <<properties, indexeStore, allIndexSets, firstOf>>
       ELSE LET props == DictUpdate(properties[r.node], propertyName, propertyValue) IN
            /\ properties' = [properties EXCEPT ![r.node] = props]
            /\ ReIndexed(r.node, label[r.node], props)
            /\ last' = Outcome("setProperty", "ok", {r.node}, TRUE)

\* GraphDB.addOrUpdateNodeProperty
AddOrUpdateNodeProperty(nodeQualifier, propertyName, propertyValue) ==
    LET r == queryById(nodeQualifier) IN
    /\ UNCHANGED <<bfsVars, fifo>>
    /\ UNCHANGED <<nodes, label, connections>>
    /\ IF r.status # "ok"
       THEN /\ last' = Outcome("setProperty", r.status, {}, FALSE)
            /\ UNCHANGED <<properties, indexeStore, allIndexSets, firstOf>>
       ELSE IF propertyName = ID
       THEN /\ last' = Outcome("setProperty", "InvalidOperation", {}, FALSE)
            /\ UNCHANGED <<properties, indexeStore, allIndexSets, firstOf>>
       ELSE LET props == DictUpdate(properties[r.node], propertyName, propertyValue) IN
            /\ properties' = [properties EXCEPT ![r.node] = props]
            /\ ReIndexed(r.node, label[r.node], props)
            /\ last' = Outcome("setProperty", "ok", {r.node}, TRUE)

(***************************************************************************)
(* The store driven through its public operations.                         *)
(***************************************************************************)
BfsIdle ==
    /\ pc = "idle"
    /\ startNode = NoNode
    /\ query = None
    /\ maxDepth = 0
    /\ visited = {}
    /\ level = 0
    /\ result = EmptyDict
    /\ q = EmptyQueue

Init ==
    /\ nodes = {}
    /\ label = EmptyDict
    /\ properties = EmptyDict
    /\ connections = EmptyDict
    /\ indexeStore = EmptyDict
    /\ allIndexSets = {}
    /\ firstOf = EmptyDict
    /\ last = Outcome("none", "ok", {}, FALSE)
    /\ BfsIdle
    /\ fifo = <<>>

\* addNode is called while fewer than bound nodes are stored, or when it fails
WithinBound(lbl, id, bound) == throwIfNodeAlreadyExists(lbl, id) \/ Cardinality(nodes) < bound

Next ==
    \/ \E in \in NodeInputs : WithinBound(in[1], in[2], MaxNodes) /\ AddNode(in[1], in[2])
    \/ \E q1 \in Qualifiers, q2 \in Qualifiers : Connect(q1, q2)
    \/ \E qual \in Qualifiers, name \in PropertyNames, value \in PropertyValues :
          AddOrUpdateNodeProperty(qual, name, value)
    \/ \E qual \in Qualifiers : QueryById(qual)

Spec == Init /\ [][Next]_vars

(***************************************************************************)
(* GraphDB.graphQuery and GraphDB.bfs, one action per loop iteration.  In  *)
(* the queue, NoNode is the None that marks the end of a level.            *)
(***************************************************************************)
\* str(level)
str(n) == ToString(n)

\* GraphDB.graphQuery: resolve the start node and enter bfs up to its loop
GraphQuery(nodeQualifier, filter, depth) ==
    LET r == queryById(nodeQualifier) IN
    /\ pc = "idle"
    /\ UNCHANGED <<store, fifo>>
    /\ IF r.status # "ok"
       THEN /\ last' = Outcome("graphQuery", r.status, {}, FALSE)
            /\ UNCHANGED bfsVars
       ELSE /\ last' = Outcome("graphQuery", "running", {r.node}, FALSE)
            /\ startNode' = r.node
            /\ query' = filter
            /\ maxDepth' = depth
            /\ visited' = {}
            /\ level' = 0
            /\ result' = Put(EmptyDict, str(0), <<>>)
            /\ q' = enqueue(enqueue(EmptyQueue, r.node), NoNode)
            /\ pc' = "loop"

\* the loop condition with < for <=
BfsContinue_Strict == ~isEmpty(q) /\ level < maxDepth

\* the loop condition of bfs
BfsContinue == ~isEmpty(q) /\ level <= maxDepth

\* the loop condition fails: return result
BfsExit ==
    /\ pc = "loop"
    /\ ~BfsContinue
    /\ pc' = "done"
    /\ last' = Outcome("graphQuery", "ok", {startNode}, FALSE)
    /\ UNCHANGED <<store, startNode, query, maxDepth, visited, level, result, q, fifo>>

\* an iteration that dequeues the None marker: break, or open the next level
BfsEndOfLevel ==
    /\ pc = "loop"
    /\ BfsContinue
    /\ peek(q) = NoNode
    /\ UNCHANGED <<store, startNode, query, maxDepth, visited, fifo>>
    /\ LET rest == dequeue(q) IN
       IF peek(rest) = NoNode
       THEN /\ pc' = "done"
            /\ last' = Outcome("graphQuery", "ok", {startNode}, FALSE)
            /\ q' = rest
            /\ UNCHANGED <<level, result>>
       ELSE /\ q' = enqueue(rest, NoNode)
            /\ level' = level + 1
            /\ result' = Put(result, str(level + 1), <<>>)
            /\ UNCHANGED <<pc, last>>

\* the for loop without its visited test
unvisitedChildren_IgnoreVisited(node) == connections[node]

\* the connections of the dequeued node that the for loop enqueues
unvisitedChildren(node) == connections[node] \ (visited \cup {node})

\* an iteration that dequeues a node
BfsVisit ==
    /\ pc = "loop"
    /\ BfsContinue
    /\ peek(q) # NoNode
    /\ UNCHANGED <<store, startNode, query, maxDepth, level, fifo>>
    /\ LET node == peek(q)
           rest == dequeue(q)
           m == IF query = None \/ level = 0 THEN [err |-> FALSE, match |-> TRUE]
                ELSE doesNodeMatchQuery(properties[node], query)
       IN IF m.err
          THEN /\ pc' = "raised"
               /\ last' = Outcome("graphQuery", "QuerySyntaxError", {startNode}, FALSE)
               /\ q' = rest
               /\ visited' = visited \cup {node}
               /\ UNCHANGED result
          ELSE /\ result' = IF m.match
                            THEN [result EXCEPT ![str(level)] = Append(@, node)]
                            ELSE result
               /\ \E order \in Orders(unvisitedChildren(node)) :
                     q' = enqueueAll(rest, order, 1)
               /\ visited' = visited \cup {node} \cup connections[node]
               /\ UNCHANGED <<pc, last>>

(***************************************************************************)
(* bfs run on every connection graph over BfsNodes persons.                *)
(***************************************************************************)
PersonId(n) == <<ToString(n)>>

\* the symmetric, irreflexive connection relations over 1..BfsNodes
Graphs ==
    {c \in [1..BfsNodes -> SUBSET (1..BfsNodes)] :
        \A a, b \in 1..BfsNodes : a \notin c[a] /\ (b \in c[a] <=> a \in c[b])}

\* property dicts: the id, then possibly the infected property
PropertyDicts(n) ==
    {<<(<<ID, PersonId(n)>>)>>} \cup
    {<<(<<ID, PersonId(n)>>), (<<Infected, v>>)>> : v \in PropertyValues}

RECURSIVE IndexOfAll(_, _)
\* the index after every node 1..n was added and its properties were set
IndexOfAll(props, n) ==
    IF n = 0 THEN [store |-> EmptyDict, sets |-> {}]
    ELSE reIndex(IndexOfAll(props, n - 1), n, Person, props[n])

\* start qualifiers: person 1 (Graphs holds every relabelling of a graph, so every
\* position of the start node in a graph is covered) and a person that is not stored
BfsQualifiers == {Qual(Person, PersonId(1)), Qual(Person, Eljo)}
BfsFilters == {None, Infected \o <<EQ>> \o Yes, Infected \o <<EQ>> \o Yes \o <<EQ>> \o No}
BfsDepths == (0 - 1)..MaxDepthArg

InitBfs ==
    /\ nodes = 1..BfsNodes
    /\ label = [n \in 1..BfsNodes |-> Person]
    /\ connections \in Graphs
    /\ \E props \in [1..BfsNodes -> UNION {PropertyDicts(n) : n \in 1..BfsNodes}] :
          /\ \A n \in 1..BfsNodes : props[n] \in PropertyDicts(n)
          /\ properties = props
          /\ indexeStore = IndexOfAll(props, BfsNodes).store
          /\ allIndexSets = IndexOfAll(props, BfsNodes).sets
    /\ firstOf = [p \in {<<Person, PersonId(n)>> : n \in 1..BfsNodes} |->
                    CHOOSE n \in 1..BfsNodes : p[2] = PersonId(n)]
    /\ last = Outcome("none", "ok", {}, FALSE)
    /\ BfsIdle
    /\ fifo = <<>>

NextBfs ==
    \/ \E qual \in BfsQualifiers, filter \in BfsFilters, depth \in BfsDepths :
          GraphQuery(qual, filter, depth)
    \/ BfsExit
    \/ BfsEndOfLevel
    \/ BfsVisit

SpecBfs == InitBfs /\ [][NextBfs]_vars

\* graphQuery runs bfs to its return in the calling thread: once the loop is
\* entered, its next iteration (or its exit) is taken
BfsStep == BfsExit \/ BfsEndOfLevel \/ BfsVisit

SpecBfsFair == SpecBfs /\ WF_vars(BfsStep)

(***************************************************************************)
(* graphQuery as one call, for the callers that use its result; and the    *)
(* contact tracing program on top of the store.                            *)
(***************************************************************************)
RECURSIVE bfsLoop(_, _, _)
\* the while loop of bfs from the state st of its locals to its return.  The
\* children of a node are enqueued in one fixed order of the set's iteration.
bfsLoop(st, filter, depth) ==
    IF ~(~isEmpty(st.q) /\ st.level <= depth) THEN [status |-> "ok", result |-> st.result]
    ELSE LET node == peek(st.q)
             rest == dequeue(st.q)
         IN IF node = NoNode
            THEN IF peek(rest) = NoNode THEN [status |-> "ok", result |-> st.result]
                 ELSE bfsLoop([st EXCEPT !.q = enqueue(rest, NoNode),
                                         !.level = st.level + 1,
                                         !.result = Put(st.result, str(st.level + 1), <<>>)],
                              filter, depth)
            ELSE LET m == IF filter = None \/ st.level = 0
                          THEN [err |-> FALSE, match |-> TRUE]
                          ELSE doesNodeMatchQuery(properties[node], filter)
                     children == connections[node] \ (st.visited \cup {node})
                     order == CHOOSE o \in Orders(children) : TRUE
                 IN IF m.err THEN [status |-> "QuerySyntaxError", result |-> st.result]
                    ELSE bfsLoop([visited |-> st.visited \cup {node} \cup connections[node],
                                  level |-> st.level,
                                  result |-> IF m.match
                                             THEN [st.result EXCEPT ![str(st.level)] = Append(@, node)]
                                             ELSE st.result,
                                  q |-> enqueueAll(rest, order, 1)],
                                 filter, depth)

\* GraphDB.bfs
bfs(start, filter, depth) ==
    bfsLoop([visited |-> {}, level |-> 0, result |-> Put(EmptyDict, str(0), <<>>),
             q |-> enqueue(enqueue(EmptyQueue, start), NoNode)],
            filter, depth)

\* GraphDB.graphQuery: the mapping from level to nodes, or the exception
graphQuery(nodeQualifier, filter, depth) ==
    LET r == queryById(nodeQualifier) IN
    IF r.status # "ok" THEN [status |-> r.status, result |-> EmptyDict]
    ELSE bfs(r.node, filter, depth)

\* graph[key] is in the mapping and is not empty
Truthy(graph, key) == key \in DOMAIN graph /\ graph[key] # <<>>

\* determinZone(personId, graphDB): the zone, or the exception of graphQuery
determinZone(personId) ==
    LET g == graphQuery(Qual(Person, personId), Infected \o <<EQ>> \o Yes, 2) IN
    IF g.status # "ok" THEN g.status
    ELSE IF Truthy(g.result, "0") /\ getProperty(g.result["0"][1], Infected) = Yes
    THEN "Infected"
    ELSE IF Truthy(g.result, "1") THEN "Red"
    ELSE IF Truthy(g.result, "2") THEN "Orange"
    ELSE "Green"

\* the person ids of the contact tracing program's input
ZoneIds == {Eljo, Norah}

\* populateData (addNode and connect per csv row) and the menu's markInfectedPerson
\* and markRecoveredPerson, all on nodes of label Person
NextZone ==
    \/ \E id \in ZoneIds : WithinBound(Person, id, ZoneNodes) /\ AddNode(Person, id)
    \/ \E a \in ZoneIds, b \in ZoneIds : Connect(Qual(Person, a), Qual(Person, b))
    \/ \E a \in ZoneIds, value \in PropertyValues :
          AddOrUpdateNodeProperty(Qual(Person, a), Infected, value)

SpecZone == Init /\ [][NextZone]_vars

(***************************************************************************)
(* The Queue driven on its own: any interleaving of enqueue and dequeue.   *)
(***************************************************************************)
\* the items enqueued: None and two nodes
QueueItems == {NoNode, 1, 2}

\* a call of Queue.enqueue
QueueEnqueue(item) ==
    /\ q' = enqueue(q, item)
    /\ fifo' = Append(fifo, item)
    /\ last' = Outcome("enqueue", "ok", {}, TRUE)
    /\ UNCHANGED <<store, pc, startNode, query, maxDepth, visited, level, result>>

\* a call of Queue.dequeue: raises on an empty queue, else returns the front item
\* (recorded in last.nodes)
QueueDequeue ==
    /\ IF isEmpty(q)
       THEN /\ last' = Outcome("dequeue", "QueueEmpty", {}, FALSE)
            /\ UNCHANGED <<q, fifo>>
       ELSE /\ last' = Outcome("dequeue", "ok", {q.cells[q.front].data}, TRUE)
            /\ q' = dequeue(q)
            /\ fifo' = Tail(fifo)
    /\ UNCHANGED <<store, pc, startNode, query, maxDepth, visited, level, result>>

NextQueue ==
    \/ \E item \in QueueItems : Len(q.cells) < MaxCells /\ QueueEnqueue(item)
    \/ QueueDequeue

SpecQueue == Init /\ [][NextQueue]_vars

(***************************************************************************)
(* Vocabulary of the properties.                                           *)
(***************************************************************************)
\* a string without separator: what the qualifier grammar calls a label, a
\* property name or a value
IsWord(w) == \A i \in 1..Len(w) : w[i] \notin {COLON, EQ}

Range(seq) == {seq[i] : i \in 1..Len(seq)}

RECURSIVE Within(_, _)
\* the nodes connected to s by a path of at most k connections
Within(s, k) ==
    IF k <= 0 THEN {s}
    ELSE LET w == Within(s, k - 1) IN w \cup UNION {connections[n] : n \in w}

\* the nodes whose shortest path from s has exactly k connections
AtDistance(s, k) == IF k = 0 THEN {s} ELSE Within(s, k) \ Within(s, k - 1)

\* the nodes the returned mapping lists at level k (none if it has no such level)
LevelOf(k) == IF str(k) \in DOMAIN result THEN Range(result[str(k)]) ELSE {}

Returned == pc = "done"

(***************************************************************************)
(* Properties of the store (specification Spec).                           *)
(***************************************************************************)

\* C1: a (label, id) pair is unique across the store: no two stored nodes have the
\* same label and the same id (a second addNode of the pair inserts nothing).
C1_UniqueLabelId ==
    \A a, b \in nodes : (label[a] = label[b] /\ getId(a) = getId(b)) => a = b

\* C2: in every state, for every stored node whose label and id are words,
\* queryById('label:id') succeeds and returns a stored node with that label and that
\* id; so nodes with the same id under different labels are told apart.
C2_QueryByIdFindsAdded ==
    \A n \in nodes :
        (IsWord(label[n]) /\ IsWord(getId(n))) =>
            LET r == queryById(Qual(label[n], getId(n))) IN
            /\ r.status = "ok"
            /\ r.node \in nodes
            /\ label[r.node] = label[n]
            /\ getId(r.node) = getId(n)

\* C2 witness: Person:eljo and Dog:eljo are both stored, one has a property set,
\* they are connected, and each qualifier returns its own node.
C2_Witness ==
    \E a, b \in nodes :
        /\ label[a] = Person /\ getId(a) = Eljo
        /\ label[b] = Dog /\ getId(b) = Eljo
        /\ HasKey(properties[a], Infected)
        /\ b \in connections[a]
        /\ queryById(Qual(Person, Eljo)) = Result("ok", a)
        /\ queryById(Qual(Dog, Eljo)) = Result("ok", b)

C3Labels == {Person, Dog, <<"Cat">>}
C3Values == PropertyValues \cup {Eljo, Norah, EmptyStr}

\* C3: for every label L, property name k and value v (words), the query 'L:k=v'
\* returns exactly the stored nodes with label L whose current value of k is v.
C3_IndexMatchesProperties ==
    \A L \in C3Labels, k \in PropertyNames, v \in C3Values :
        queryExact(Qual(L, k \o <<EQ>> \o v)) =
            [status |-> "ok",
             nodes |-> {n \in nodes : label[n] = L /\ getProperty(n, k) = v}]

\* C3 witness: a property was just updated away from 'yes': the index set of
\* infected=yes exists and is empty again, and the node is found under 'no'.
C3_Witness ==
    /\ last.op = "setProperty" /\ last.status = "ok"
    /\ <<Person, Infected, Yes>> \in allIndexSets
    /\ IndexGet(indexeStore, Person, Infected, Yes) = {}
    /\ \E n \in nodes : label[n] = Person /\ getProperty(n, Infected) = No
                        /\ n \in IndexGet(indexeStore, Person, Infected, No)

\* C4: the connection relation is symmetric: B is in A's connections exactly when
\* A is in B's.
C4_ConnectionsSymmetric ==
    \A a, b \in nodes : b \in connections[a] <=> a \in connections[b]

\* C4 witness: a connect call just connected two distinct nodes, each now in the
\* other's connection set.
C4_Witness ==
    /\ last.op = "connect" /\ last.status = "ok" /\ last.changed
    /\ \E a, b \in last.nodes : a # b /\ b \in connections[a] /\ a \in connections[b]

\* C5: a successful connect of the two nodes that the preceding successful connect
\* connected (in either argument order) leaves the whole store as it was.
C5_ConnectIdempotent ==
    [][(/\ last.op = "connect" /\ last.status = "ok"
        /\ last'.op = "connect" /\ last'.status = "ok"
        /\ last'.nodes = last.nodes) => store' = store]_vars

\* C5 witness: a connect call succeeded on two nodes that were connected already
\* and changed no connection set.
C5_Witness ==
    /\ last.op = "connect" /\ last.status = "ok" /\ ~last.changed
    /\ \E a, b \in last.nodes : a # b /\ b \in connections[a]

\* C6: no node is in its own connection set, and a connect that succeeded had
\* resolved its qualifiers to two different nodes.
C6_NoSelfConnection ==
    /\ \A n \in nodes : n \notin connections[n]
    /\ (last.op = "connect" /\ last.status = "ok") => Cardinality(last.nodes) = 2

\* C6 witness: connect was called with qualifiers resolving to one node and failed
\* with InvalidOperation, the node being connected to another node but not to itself.
C6_Witness ==
    /\ last.op = "connect" /\ last.status = "InvalidOperation"
    /\ \E n \in nodes : connections[n] # {} /\ n \notin connections[n]

(***************************************************************************)
(* Properties of bfs (specification SpecBfs).                              *)
(***************************************************************************)

\* C7: without a filter and with maxDepth d >= 0, every level k in 0..d of the
\* returned mapping lists exactly the nodes at distance k from the start node,
\* and no node farther than d is listed at any level.
C7_LevelsAreDistances ==
    (Returned /\ query = None /\ maxDepth >= 0) =>
        /\ \A k \in 0..maxDepth : LevelOf(k) = AtDistance(startNode, k)
        /\ \A key \in DOMAIN result : Range(result[key]) \subseteq Within(startNode, maxDepth)

\* C7 witness: on the chain 1-2-3 with maxDepth 1 the call returned 1 at level 0,
\* 2 at level 1 and 3 nowhere.
C7_Witness ==
    /\ Returned /\ query = None /\ maxDepth = 1 /\ startNode = 1
    /\ connections[1] = {2} /\ connections[2] = {1, 3}
    /\ result[str(0)] = <<1>> /\ result[str(1)] = <<2>>
    /\ \A key \in DOMAIN result : 3 \notin Range(result[key])

\* C8: with maxDepth d >= 0 the returned mapping has level keys within 0..d only.
C8_LevelKeysWithinMaxDepth ==
    (Returned /\ maxDepth >= 0) => DOMAIN result \subseteq {str(k) : k \in 0..maxDepth}

\* C9: level 0 of every returned mapping lists exactly the start node, whatever the
\* filter and the maxDepth passed.
C9_LevelZeroIsStart ==
    Returned => result[str(0)] = <<startNode>>

\* C10: with a filter 'property=value' and maxDepth d >= 0, level k in 1..d lists
\* exactly the nodes at distance k whose property has that value, and a level at
\* which there are nodes is present even when none of them matches.
C10_FilterPerLevel ==
    (Returned /\ query # None /\ maxDepth >= 0) =>
        LET c == parseQueryClause(query) IN
        \A k \in 1..maxDepth :
            /\ LevelOf(k) = {n \in AtDistance(startNode, k) : getProperty(n, c.key) = c.value}
            /\ AtDistance(startNode, k) # {} => str(k) \in DOMAIN result

\* C10 witness: on the chain 1-2-3 with 2 not infected and 3 infected, the filter
\* infected=yes returned an empty level 1 and 3 at level 2.
C10_Witness ==
    /\ Returned /\ query = Infected \o <<EQ>> \o Yes /\ maxDepth = 2 /\ startNode = 1
    /\ connections[1] = {2} /\ connections[2] = {1, 3}
    /\ getProperty(2, Infected) = No /\ getProperty(3, Infected) = Yes
    /\ result[str(1)] = <<>> /\ result[str(2)] = <<3>>

\* the places <<level key, position>> of the result that hold node n
PlacesOf(n) == {pl \in UNION {{<<k, i>> : i \in 1..Len(result[k])} : k \in DOMAIN result} :
                   result[pl[1]][pl[2]] = n}

\* C11: on every connection graph, cycles included, for every start node and
\* maxDepth, a bfs that entered its loop leaves it (returns or raises), and at
\* every moment no node is at more than one place of the result.
C11_BfsTerminatesWithoutRepeats ==
    /\ [](\A n \in nodes : Cardinality(PlacesOf(n)) <= 1)
    /\ (pc = "loop") ~> (pc \in {"done", "raised"})

\* bfs returned from a walk of the triangle 1-2, 2-3, 3-1 that reports all of it
C11_Witness ==
    /\ Returned
    /\ connections = [n \in 1..3 |-> (1..3) \ {n}]
    /\ \A n \in 1..3 : Cardinality(PlacesOf(n)) = 1

\* the operation just performed raised
Failed(outcome) == outcome.status \notin {"ok", "running"}

\* C12: a call of addNode, connect, setProperty or queryById that fails leaves
\* the node set, the index, every property dict and every connection set as
\* they were before the call.
C12_FailureLeavesStore ==
    [][Failed(last') => store' = store]_vars

\* connect failed with NotFound in a store where Person:eljo resolves and
\* Person:norah does not, and no connection exists
C12_Witness ==
    /\ last.op = "connect" /\ last.status = "NotFound"
    /\ queryById(Qual(Person, Eljo)).status = "ok"
    /\ queryById(Qual(Person, Norah)).status = "NotFound"
    /\ \A n \in nodes : connections[n] = {}

\* every node keeps its id over a step, and a node just added has the id passed
\* to addNode
IdsKept ==
    /\ \A n \in nodes : getId(n)' = getId(n)
    /\ nodes' # nodes =>
          \A in \in NodeInputs :
             AddNode(in[1], in[2]) => \A n \in nodes' \ nodes : getId(n)' = in[2]

\* C13 as stated: setProperty(qualifier, 'id', value) fails with InvalidOperation
\* for every qualifier and value, and every node keeps the id it was created with.
C13_SetIdIsInvalidOperation ==
    [][/\ last'.op = "setProperty" =>
             \A qual \in Qualifiers, value \in PropertyValues :
                AddOrUpdateNodeProperty(qual, ID, value) => last'.status = "InvalidOperation"
       /\ IdsKept]_vars

\* C13, amended: setProperty(qualifier, 'id', value) fails for every qualifier and
\* value, with InvalidOperation when the qualifier resolves to a node and with the
\* error of queryById (NotFound, QuerySyntaxError) when it does not; every node
\* keeps the id it was created with.
C13_SetIdFails ==
    [][/\ last'.op = "setProperty" =>
             \A qual \in Qualifiers, value \in PropertyValues :
                AddOrUpdateNodeProperty(qual, ID, value) =>
                   /\ Failed(last')
                   /\ last'.status = IF queryById(qual).status = "ok" THEN "InvalidOperation"
                                     ELSE queryById(qual).status
       /\ IdsKept]_vars

\* setProperty was refused with InvalidOperation on a node that has another
\* property, and the node still resolves by the id it was created with
C13_Witness ==
    /\ last.op = "setProperty" /\ last.status = "InvalidOperation"
    /\ \E n \in nodes : /\ getId(n) = Eljo
                         /\ HasKey(properties[n], Infected)
                         /\ queryById(Qual(label[n], Eljo)).status = "ok"

\* C14: the query without qualifier returns a set that only grows: a successful
\* addNode adds exactly one node to it, and every other step (a failed addNode,
\* connect, setProperty, queryById) leaves it as it was.
C14_QueryAllGrowsByAddNode ==
    [][/\ queryAll \subseteq queryAll'
       /\ IF last'.op = "addNode" /\ last'.status = "ok"
          THEN Cardinality(queryAll') = Cardinality(queryAll) + 1
          ELSE queryAll' = queryAll]_vars

\* two addNode calls with the same label and id succeeded, a setProperty
\* followed, and the query without qualifier returns both nodes
C14_Witness ==
    /\ last.op = "setProperty" /\ last.status = "ok"
    /\ Cardinality(queryAll) = 2
    /\ \A n \in queryAll : label[n] = Person /\ getId(n) = Eljo

(***************************************************************************)
(* Properties of the contact tracing program (specification SpecZone).     *)
(***************************************************************************)
\* the stored node p has infected=yes
IsInfected(p) == getProperty(p, Infected) = Yes

\* the zone of p by the rule: own infection, then distance 1, then distance 2
ZoneByDistance(p) ==
    IF IsInfected(p) THEN "Infected"
    ELSE IF \E n \in AtDistance(p, 1) : IsInfected(n) THEN "Red"
    ELSE IF \E n \in AtDistance(p, 2) : IsInfected(n) THEN "Orange"
    ELSE "Green"

\* C15: for every stored person p, determinZone of p's id is 'Infected' if p has
\* infected=yes, otherwise 'Red' if a node at distance exactly 1 has infected=yes,
\* otherwise 'Orange' if a node at distance exactly 2 has, otherwise 'Green'.
C15_ZoneByDistance ==
    \A p \in nodes : label[p] = Person => determinZone(getId(p)) = ZoneByDistance(p)

\* C18: right after a successful setProperty('Person:p', 'infected', 'yes'), with
\* h the node the call wrote to, every node at distance 1 from h has zone
\* 'Infected' or 'Red' and every node at distance 2 has zone 'Infected', 'Red'
\* or 'Orange'.
C18_ContactsOfInfectedAtRisk ==
    (last.op = "setProperty" /\ last.status = "ok") =>
       \A h \in last.nodes :
          IsInfected(h) =>
             /\ \A c \in AtDistance(h, 1) : determinZone(getId(c)) \in {"Infected", "Red"}
             /\ \A c \in AtDistance(h, 2) :
                   determinZone(getId(c)) \in {"Infected", "Red", "Orange"}

(***************************************************************************)
(* Further properties of the store (specification Spec).                   *)
(***************************************************************************)
\* C16: for every label (a stored one or an unknown one), the query 'Label'
\* returns exactly the stored nodes with that label, whatever their other
\* properties; an unknown label yields the empty set; and between the unIndex
\* and the addIndex of a reIndex the node is still in the set of its label.
C16_LabelOnlyIndex ==
    /\ \A lbl \in C3Labels :
          /\ queryExact(lbl).status = "ok"
          /\ queryExact(lbl).nodes = {n \in nodes : label[n] = lbl}
    /\ \A n \in nodes :
          n \in IndexGet(unIndex([store |-> indexeStore, sets |-> allIndexSets], n).store,
                         label[n], None, None)

\* after a setProperty re-indexed a node, the query 'Person' returns two nodes,
\* one with and one without the property infected, and 'Cat' returns none
C16_Witness ==
    /\ last.op = "setProperty" /\ last.status = "ok"
    /\ Cardinality(queryExact(Person).nodes) = 2
    /\ \E a, b \in queryExact(Person).nodes :
          HasKey(properties[a], Infected) /\ ~HasKey(properties[b], Infected)
    /\ queryExact(<<"Cat">>).nodes = {}

\* the index entries <<label, key, value>> whose set holds node n
MembershipOf(n) ==
    {e \in UNION {UNION {{<<l, k, v>> : v \in DOMAIN indexeStore[l][k]} :
                            k \in DOMAIN indexeStore[l]} : l \in DOMAIN indexeStore} :
        n \in indexeStore[e[1]][e[2]][e[3]]}

C19_NoDanglingConnection ==
    \A n \in DOMAIN connections : connections[n] \subseteq nodes

\* two stored nodes are connected, and one of them was re-indexed afterwards
C19_Witness ==
    /\ last.op = "setProperty" /\ last.status = "ok"
    /\ \E a \in nodes : \E b \in connections[a] : b \in nodes /\ a \in last.nodes

(***************************************************************************)
(* Properties of the Queue (specification SpecQueue).                      *)
(***************************************************************************)
RECURSIVE Chain(_, _)
\* the items of the cells linked from cell i on
Chain(Q, i) == IF i = 0 THEN <<>> ELSE <<Q.cells[i].data>> \o Chain(Q, Q.cells[i].next)

\* C20: under any interleaving of enqueue and dequeue, with fifo the items
\* enqueued and not yet dequeued in enqueue order: the queue holds exactly fifo,
\* isEmpty is true exactly when fifo is empty, size() is its length, peek is its
\* first item; a dequeue returns the first item of fifo and removes it, and on
\* an empty queue it fails and leaves the queue as it was.
C20_QueueIsFifo ==
    /\ [](/\ Chain(q, q.front) = fifo
          /\ isEmpty(q) <=> fifo = <<>>
          /\ q.queueSize = Len(fifo)
          /\ fifo # <<>> => peek(q) = Head(fifo))
    /\ [][last'.op = "dequeue" =>
             IF fifo = <<>>
             THEN last'.status = "QueueEmpty" /\ q' = q
             ELSE /\ last'.status = "ok"
                  /\ last'.nodes = {Head(fifo)}
                  /\ Chain(q, q.front)' = Tail(fifo)
                  /\ peek(q) = Head(fifo)]_vars

\* the queue ran empty after two items (the second cell was never linked on)
\* and was filled again: the two items enqueued since then wait in order
C20_Witness ==
    /\ Len(q.cells) = 4 /\ q.front = 3
    /\ fifo = <<q.cells[3].data, q.cells[4].data>>
    /\ q.cells[2].next = 0
    /\ last.op = "enqueue"

====
